---- MODULE Spec2Model ----
(***************************************************************************)
(* A model of kubetest/manifest.py: the manifest loader that resolves the  *)
(* Kubernetes model class of a YAML document (get_type), builds the object *)
(* from the class's attribute_map / openapi_types tables (new_object,      *)
(* cast_value) and loads files and directories of manifests (load_file,    *)
(* load_path, load_type), optionally through a Renderer.                   *)
(*                                                                         *)
(* Python values are tagged records:                                       *)
(*   [tag |-> "none"]                      None                            *)
(*   [tag |-> "str",  s |-> "abc"]         str                             *)
(*   [tag |-> "int",  n |-> 3]             int                             *)
(*   [tag |-> "bool", b |-> TRUE]          bool                            *)
(*   [tag |-> "list", items |-> <<..>>]    list                            *)
(*   [tag |-> "map",  items |-> <<k,v>>..] dict, in insertion order        *)
(*   [tag |-> "obj",  type, args]          an instance of a model class    *)
(* Python strings are TLA+ strings, read with Len, SubSeq and \o.          *)
(***************************************************************************)
EXTENDS Integers, Sequences, FiniteSets, TLC

(***************************************************************************)
(* Bounds of the model.                                                    *)
(***************************************************************************)
\* Entries os.listdir yields for one load_path call.
MaxFiles == 2
\* YAML documents yaml.load_all yields for one file.
MaxDocs == 2

(***************************************************************************)
(* Strings: str.replace, str.count, str.split, str.lower.                  *)
(***************************************************************************)
Char(s, i) == SubSeq(s, i, i)

RECURSIVE Remove(_, _)
\* s.replace(c, '') for a one-character c
Remove(s, c) ==
    IF Len(s) = 0 THEN ""
    ELSE (IF Char(s, 1) = c THEN "" ELSE Char(s, 1)) \o Remove(SubSeq(s, 2, Len(s)), c)

\* s.count(c) for a one-character c
Count(s, c) == Cardinality({i \in 1..Len(s) : Char(s, i) = c})

\* s.split(c)[1] for a string holding c: the text between the first c and the next
SplitSecond(s, c) ==
    LET first == CHOOSE i \in 1..Len(s) :
                     Char(s, i) = c /\ \A j \in 1..(i - 1) : Char(s, j) # c
        later == {i \in (first + 1)..Len(s) : Char(s, i) = c}
        stop  == IF later = {} THEN Len(s) + 1
                 ELSE CHOOSE i \in later : \A j \in later : i <= j
    IN  SubSeq(s, first + 1, stop - 1)

UpperChars == "ABCDEFGHIJKLMNOPQRSTUVWXYZ"
LowerChars == "abcdefghijklmnopqrstuvwxyz"

LowerChar(c) ==
    IF \E i \in 1..Len(UpperChars) : Char(UpperChars, i) = c
    THEN Char(LowerChars, CHOOSE i \in 1..Len(UpperChars) : Char(UpperChars, i) = c)
    ELSE c

RECURSIVE Lower(_)
\* s.lower()
Lower(s) ==
    IF Len(s) = 0 THEN ""
    ELSE LowerChar(Char(s, 1)) \o Lower(SubSeq(s, 2, Len(s)))

(***************************************************************************)
(* Python values.                                                          *)
(***************************************************************************)
NoneV == [tag |-> "none"]
S(x) == [tag |-> "str", s |-> x]
I(x) == [tag |-> "int", n |-> x]
B(x) == [tag |-> "bool", b |-> x]
L(x) == [tag |-> "list", items |-> x]
M(x) == [tag |-> "map", items |-> x]
Obj(t, a) == [tag |-> "obj", type |-> t, args |-> a]

HasKey(m, key) == \E i \in 1..Len(m.items) : m.items[i][1] = key

\* dict.get(key): the value stored under key, None when the key is absent
Get(m, key) ==
    IF HasKey(m, key)
    THEN m.items[CHOOSE i \in 1..Len(m.items) : m.items[i][1] = key][2]
    ELSE NoneV

\* d[key] = val on a dict kept in insertion order
Put(items, key, val) ==
    IF \E i \in 1..Len(items) : items[i][1] = key
    THEN [i \in 1..Len(items) |->
             IF items[i][1] = key THEN <<items[i][1], val>> ELSE items[i]]
    ELSE Append(items, <<key, val>>)

(***************************************************************************)
(* The namespaces the code reads: kubernetes.client.models.__dict__,       *)
(* kubernetes.client.__dict__ and builtins.__dict__.  A model class is     *)
(* named by its class name; Other stands for a namespace entry that is     *)
(* no class (a module attribute such as __name__).                         *)
(***************************************************************************)
\* the keys of models.__dict__, in the dict's order
ModelsKeys ==
    << "__name__", "V1ObjectMeta", "V1Pod", "V1PodSpec", "V1Container",
       "V1UserInfo", "V1ControllerRevision", "V1Deployment",
       "AppsV1Deployment", "V1beta1Role", "RbacAuthorizationK8sIoV1Role" >>

ModelClasses == {ModelsKeys[i] : i \in 2..Len(ModelsKeys)}

Class(name) == [tag |-> "class", name |-> name]
\* a namespace entry that is no model class (it has no attribute_map)
Other == [tag |-> "other"]

\* models.__dict__.get(name)
ModelsGet(name) ==
    IF name \in ModelClasses THEN Class(name)
    ELSE IF name = "__name__" THEN Other
    ELSE NoneV

\* kubernetes.client.__dict__.get(name): the model classes and the package's own names
ClientGet(name) ==
    IF name \in ModelClasses THEN Class(name)
    ELSE IF name \in {"__name__", "ApiClient"} THEN Other
    ELSE NoneV

(***************************************************************************)
(* get_type                                                                *)
(***************************************************************************)
\* lookup = {k.lower(): k for k in models.__dict__.keys()}, entry by entry
lookup == [i \in 1..Len(ModelsKeys) |-> <<Lower(ModelsKeys[i]), ModelsKeys[i]>>]

\* lookup.get(low): of several keys with one lower-cased form the dict keeps the last
LookupGet(low) ==
    LET hits == {i \in 1..Len(lookup) : lookup[i][1] = low}
    IN  IF hits = {} THEN NoneV
        ELSE S(lookup[CHOOSE i \in hits : \A j \in hits : j <= i][2])

\* possibilities with the name without the prefix tried first
possibilities_suffix_first(version, kind) ==
    (IF Count(version, "/") = 1 THEN <<SplitSecond(version, "/") \o kind>> ELSE <<>>)
    \o <<Remove(Remove(version, "/"), ".") \o kind>>

\* the candidate names, in the order they are tried
possibilities(version, kind) ==
    <<Remove(Remove(version, "/"), ".") \o kind>>
    \o (IF Count(version, "/") = 1 THEN <<SplitSecond(version, "/") \o kind>> ELSE <<>>)

RECURSIVE ProbeFrom(_, _, _)

\* one turn of the loop: type_name is what lookup holds for the candidate
Probe(names, i, probes, type_name) ==
    IF type_name = NoneV THEN ProbeFrom(names, i + 1, Append(probes, names[i]))
    ELSE [raised |-> "", type |-> ModelsGet(type_name.s),
          lookupBuilt |-> TRUE, probes |-> Append(probes, names[i])]

\* the for loop over possibilities, from index i on, probes being the names tried so far
ProbeFrom(names, i, probes) ==
    IF i > Len(names)
    THEN [raised |-> "", type |-> NoneV, lookupBuilt |-> TRUE, probes |-> probes]
    ELSE Probe(names, i, probes, LookupGet(Lower(names[i])))

GetTypeRaise(e, built) ==
    [raised |-> e, type |-> NoneV, lookupBuilt |-> built, probes |-> <<>>]

\* Resolve that takes a missing field for a type that is not found
Resolve_not_found(version, kind) ==
    IF version = NoneV \/ kind = NoneV
    THEN [raised |-> "", type |-> NoneV, lookupBuilt |-> TRUE, probes |-> <<>>]
    ELSE IF version.tag # "str" THEN GetTypeRaise("AttributeError", TRUE)
    ELSE IF kind.tag # "str" THEN GetTypeRaise("TypeError", TRUE)
    ELSE ProbeFrom(possibilities(version.s, kind.s), 1, <<>>)

\* get_type from the two fields read: the checks, the lookup, the candidates
Resolve(version, kind) ==
    IF version = NoneV THEN GetTypeRaise("ValueError", FALSE)
    ELSE IF kind = NoneV THEN GetTypeRaise("ValueError", FALSE)
    ELSE IF version.tag # "str" THEN GetTypeRaise("AttributeError", TRUE)
    ELSE IF kind.tag # "str" THEN GetTypeRaise("TypeError", TRUE)
    ELSE ProbeFrom(possibilities(version.s, kind.s), 1, <<>>)

get_type(manifest) ==
    IF manifest.tag # "map" THEN GetTypeRaise("AttributeError", FALSE)
    ELSE Resolve(Get(manifest, S("apiVersion")), Get(manifest, S("kind")))

(***************************************************************************)
(* The model classes' tables.  attribute_map is kept in the dict's order:  *)
(* <<internal identifier, external key>>.  CustomResource is a class a     *)
(* caller hands to load_type; it is in no namespace.                       *)
(***************************************************************************)
KindFields ==
    << <<"api_version", "apiVersion">>, <<"kind", "kind">>, <<"metadata", "metadata">> >>

attribute_map(T) ==
    CASE T = "V1ObjectMeta" ->
           << <<"name", "name">>, <<"labels", "labels">>,
              <<"finalizers", "finalizers">>, <<"generation", "generation">>,
              <<"creation_timestamp", "creationTimestamp">> >>
      [] T = "V1Pod" -> KindFields \o << <<"spec", "spec">> >>
      [] T = "V1PodSpec" ->
           << <<"containers", "containers">>, <<"host_network", "hostNetwork">> >>
      [] T = "V1Container" -> << <<"name", "name">>, <<"args", "args">> >>
      [] T = "V1UserInfo" ->
           << <<"extra", "extra">>, <<"groups", "groups">>, <<"username", "username">> >>
      [] T = "V1ControllerRevision" ->
           << <<"data", "data">>, <<"revision", "revision">> >>
      [] T = "CustomResource" ->
           << <<"matrix", "matrix">>, <<"tags", "tags">>, <<"pairs", "pairs">>,
              <<"ref", "ref">>, <<"api_client", "apiClient">>,
              <<"module_name", "moduleName">>, <<"counts", "counts">> >>
      [] OTHER -> KindFields

KindTypes ==
    [k \in {"api_version", "kind", "metadata"} |->
        IF k = "metadata" THEN "V1ObjectMeta" ELSE "str"]

\* the classes of an older client carry swagger_types instead of openapi_types
HasSwaggerTypes(T) == T = "AppsV1Deployment"

swagger_types(T) == KindTypes

openapi_types(T) ==
    CASE T = "V1ObjectMeta" ->
           [k \in {"name", "labels", "finalizers", "generation", "creation_timestamp"} |->
               CASE k = "name" -> "str"
                 [] k = "labels" -> "dict(str, str)"
                 [] k = "finalizers" -> "list[str]"
                 [] k = "generation" -> "int"
                 [] k = "creation_timestamp" -> "datetime"]
      [] T = "V1Pod" ->
           [k \in {"api_version", "kind", "metadata", "spec"} |->
               IF k = "spec" THEN "V1PodSpec" ELSE KindTypes[k]]
      [] T = "V1PodSpec" ->
           [k \in {"containers", "host_network"} |->
               IF k = "containers" THEN "list[V1Container]" ELSE "bool"]
      [] T = "V1Container" ->
           [k \in {"name", "args"} |-> IF k = "name" THEN "str" ELSE "list[str]"]
      [] T = "V1UserInfo" ->
           [k \in {"extra", "groups", "username"} |->
               CASE k = "extra" -> "dict(str, list[str])"
                 [] k = "groups" -> "list[str]"
                 [] k = "username" -> "str"]
      [] T = "V1ControllerRevision" ->
           [k \in {"data", "revision"} |-> IF k = "data" THEN "object" ELSE "int"]
      [] T = "CustomResource" ->
           [k \in {"matrix", "tags", "pairs", "ref", "api_client", "module_name", "counts"} |->
               CASE k = "matrix" -> "list[list[str]]"
                 [] k = "tags" -> "list[str"
                 [] k = "pairs" -> "dict(str,str)"
                 [] k = "ref" -> "V1Missing"
                 [] k = "api_client" -> "ApiClient"
                 [] k = "module_name" -> "__name__"
                 [] k = "counts" -> "dict(str, int)"]
      [] OTHER -> KindTypes

(***************************************************************************)
(* builtins: the names of builtins.__dict__ the tables use, and the        *)
(* conversions str(), int() and bool().                                    *)
(***************************************************************************)
\* builtins.__dict__.get(t): "type" a conversion, "object" the class object,
\* "other" an entry that cannot be called, "absent" no entry (or the entry None)
BuiltinGet(t) ==
    CASE t = "object" -> "object"
      [] t \in {"str", "int", "bool"} -> "type"
      [] t = "__name__" -> "other"
      [] OTHER -> "absent"

DigitChars == "0123456789"

IsDigit(c) == \E i \in 1..Len(DigitChars) : Char(DigitChars, i) = c

DigitValue(c) == (CHOOSE i \in 1..Len(DigitChars) : Char(DigitChars, i) = c) - 1

RECURSIVE NatToStr(_)
NatToStr(n) ==
    IF n < 10 THEN Char(DigitChars, n + 1)
    ELSE NatToStr(n \div 10) \o Char(DigitChars, (n % 10) + 1)

IntToStr(n) == IF n < 0 THEN "-" \o NatToStr(0 - n) ELSE NatToStr(n)

RECURSIVE StrToNat(_, _)
\* the value of a string of digits, acc being the value read so far
StrToNat(s, acc) ==
    IF Len(s) = 0 THEN acc
    ELSE StrToNat(SubSeq(s, 2, Len(s)), (acc * 10) + DigitValue(Char(s, 1)))

\* int() accepts a sign and digits
IsIntLiteral(s) ==
    LET body == IF Len(s) > 0 /\ Char(s, 1) \in {"-", "+"} THEN SubSeq(s, 2, Len(s)) ELSE s
    IN  Len(body) > 0 /\ \A i \in 1..Len(body) : IsDigit(Char(body, i))

ParseInt(s) ==
    IF Char(s, 1) = "-" THEN 0 - StrToNat(SubSeq(s, 2, Len(s)), 0)
    ELSE IF Char(s, 1) = "+" THEN StrToNat(SubSeq(s, 2, Len(s)), 0)
    ELSE StrToNat(s, 0)

RECURSIVE Repr(_)
RECURSIVE ReprJoin(_, _)
\* repr() of the elements from index i on, separated by ", "
ReprJoin(parts, i) ==
    IF i > Len(parts) THEN ""
    ELSE parts[i] \o (IF i < Len(parts) THEN ", " ELSE "") \o ReprJoin(parts, i + 1)

\* repr(v), which str() gives for a container
Repr(v) ==
    CASE v.tag = "none" -> "None"
      [] v.tag = "str" -> "'" \o v.s \o "'"
      [] v.tag = "int" -> IntToStr(v.n)
      [] v.tag = "bool" -> IF v.b THEN "True" ELSE "False"
      [] v.tag = "list" ->
           "[" \o ReprJoin([i \in 1..Len(v.items) |-> Repr(v.items[i])], 1) \o "]"
      [] v.tag = "map" ->
           "{" \o ReprJoin([i \in 1..Len(v.items) |->
                               Repr(v.items[i][1]) \o ": " \o Repr(v.items[i][2])], 1) \o "}"

PyStr(v) == IF v.tag = "str" THEN v.s ELSE Repr(v)

\* bool(v): the value's truth
PyBool(v) ==
    CASE v.tag = "none" -> FALSE
      [] v.tag = "str" -> Len(v.s) > 0
      [] v.tag = "int" -> v.n # 0
      [] v.tag = "bool" -> v.b
      [] OTHER -> Len(v.items) > 0

(***************************************************************************)
(* The result of a call: err is the exception raised ("" for a return),    *)
(* val the value returned, log the constructors invoked and the exception  *)
(* raised, in order.                                                       *)
(***************************************************************************)
Ctor(T) == [ev |-> "ctor", what |-> T]
Raised(e) == [ev |-> "raise", what |-> e]

Return(v, log) == [err |-> "", val |-> v, log |-> log]
Raise(e, log) == [err |-> e, val |-> NoneV, log |-> Append(log, Raised(e))]

\* builtin_type(value) for str, int and bool
CallBuiltin(t, value) ==
    CASE t = "str" -> Return(S(PyStr(value)), <<>>)
      [] t = "bool" -> Return(B(PyBool(value)), <<>>)
      [] t = "int" ->
           CASE value.tag = "int" -> Return(value, <<>>)
             [] value.tag = "bool" -> Return(I(IF value.b THEN 1 ELSE 0), <<>>)
             [] value.tag = "str" ->
                  IF IsIntLiteral(value.s) THEN Return(I(ParseInt(value.s)), <<>>)
                  ELSE Raise("ValueError", <<>>)
             [] OTHER -> Raise("TypeError", <<>>)

(***************************************************************************)
(* The type signatures, as the two regular expressions of new_object read  *)
(* them: "list[" group "]", and "dict(" group ", " group ")" with a greedy *)
(* first group.  The signatures hold no newline.                           *)
(***************************************************************************)
list_match(t) == Len(t) >= 6 /\ SubSeq(t, 1, 5) = "list[" /\ Char(t, Len(t)) = "]"

element_type(t) == SubSeq(t, 6, Len(t) - 1)

\* the places of ", " between "dict(" and the closing ")"
DictSplits(t) == {i \in 6..(Len(t) - 2) : SubSeq(t, i, i + 1) = ", "}

dict_match(t) ==
    Len(t) >= 8 /\ SubSeq(t, 1, 5) = "dict(" /\ Char(t, Len(t)) = ")" /\ DictSplits(t) # {}

\* the first group is greedy: the split is at the last ", "
DictSplit(t) == CHOOSE i \in DictSplits(t) : \A j \in DictSplits(t) : j <= i

key_type(t) == SubSeq(t, 6, DictSplit(t) - 1)

val_type(t) == SubSeq(t, DictSplit(t) + 2, Len(t) - 1)

(***************************************************************************)
(* new_object and cast_value                                               *)
(***************************************************************************)
RECURSIVE new_object(_, _)
RECURSIVE cast_value(_, _)
RECURSIVE FieldsFrom(_, _, _, _, _)
RECURSIVE CastElements(_, _, _, _, _)
RECURSIVE CastEntries(_, _, _, _, _, _)

\* what iterating a value yields; a value that is not iterable has no elements
IsIterable(v) == v.tag \in {"list", "str", "map"}

Elements(v) ==
    CASE v.tag = "list" -> v.items
      [] v.tag = "str" -> [i \in 1..Len(v.s) |-> S(Char(v.s, i))]
      [] v.tag = "map" -> [i \in 1..Len(v.items) |-> v.items[i][1]]

\* IsGiven as a test of the value's truth: if cfg_value
IsGiven_truthy(cfg_value) == PyBool(cfg_value)

\* the test that a configuration value is given: cfg_value is not None
IsGiven(cfg_value) == cfg_value # NoneV

\* the type signature of field k: swagger_types where the class has it
FieldType(T, k) ==
    IF HasSwaggerTypes(T) THEN swagger_types(T)[k] ELSE openapi_types(T)[k]

\* an exception of a call made after log passes through the caller
Propagate(r, log) == [r EXCEPT !.log = log \o r.log]

\* the list comprehension's step for element i, cast with result r
ElementCast(elems, t, i, acc, log, r) ==
    IF r.err # "" THEN Propagate(r, log)
    ELSE CastElements(elems, t, i + 1, Append(acc, r.val), log \o r.log)

\* [cast_value(i, element_type) for i in cfg_value], from element i on
CastElements(elems, t, i, acc, log) ==
    IF i > Len(elems) THEN Return(L(acc), log)
    ELSE ElementCast(elems, t, i, acc, log, cast_value(elems[i], t))

\* list_value that casts the elements from the last to the first
list_value_reversed(cfg_value, t) ==
    IF ~IsIterable(cfg_value) THEN Raise("TypeError", <<>>)
    ELSE CastElements([i \in 1..Len(Elements(cfg_value)) |->
                          Elements(cfg_value)[Len(Elements(cfg_value)) + 1 - i]],
                      t, 1, <<>>, <<>>)

list_value(cfg_value, t) ==
    IF ~IsIterable(cfg_value) THEN Raise("TypeError", <<>>)
    ELSE CastElements(Elements(cfg_value), t, 1, <<>>, <<>>)

\* the dict comprehension's step for entry i, its key cast to key and its value
\* cast with result rv
EntryValueCast(entries, kt, vt, i, acc, log, key, rv) ==
    IF rv.err # "" THEN Propagate(rv, log)
    ELSE CastEntries(entries, kt, vt, i + 1, Put(acc, key, rv.val), log \o rv.log)

\* the dict comprehension's step for entry i, its key cast with result rk
EntryKeyCast(entries, kt, vt, i, acc, log, rk) ==
    IF rk.err # "" THEN Propagate(rk, log)
    ELSE EntryValueCast(entries, kt, vt, i, acc, log \o rk.log, rk.val,
                        cast_value(entries[i][2], vt))

\* {cast_value(k, key_type): cast_value(v, val_type) for k, v in cfg_value.items()},
\* from entry i on; the key is cast before the value
CastEntries(entries, kt, vt, i, acc, log) ==
    IF i > Len(entries) THEN Return(M(acc), log)
    ELSE EntryKeyCast(entries, kt, vt, i, acc, log, cast_value(entries[i][1], kt))

dict_value(cfg_value, kt, vt) ==
    IF cfg_value.tag # "map" THEN Raise("AttributeError", <<>>)
    ELSE CastEntries(cfg_value.items, kt, vt, 1, <<>>, <<>>)

\* the value of one field: the list signature, then the dict signature, then a base type
CastField(cfg_value, t) ==
    IF list_match(t) THEN list_value(cfg_value, element_type(t))
    ELSE IF dict_match(t) THEN dict_value(cfg_value, key_type(t), val_type(t))
    ELSE cast_value(cfg_value, t)

\* FieldCast that leaves a field whose cast failed unset and goes on
FieldCast_continue(T, config, i, args, log, k, r) ==
    IF r.err # "" THEN FieldsFrom(T, config, i + 1, args, log \o r.log)
    ELSE FieldsFrom(T, config, i + 1, args @@ (k :> r.val), log \o r.log)

\* constructor_args[k] = the cast value, for a cast with result r
FieldCast(T, config, i, args, log, k, r) ==
    IF r.err # "" THEN [err |-> r.err, args |-> args, log |-> log \o r.log]
    ELSE FieldsFrom(T, config, i + 1, args @@ (k :> r.val), log \o r.log)

\* one turn of the loop, for the field k whose configuration value is cfg_value
Field(T, config, i, args, log, k, cfg_value) ==
    IF ~IsGiven(cfg_value) THEN FieldsFrom(T, config, i + 1, args, log)
    ELSE FieldCast(T, config, i, args, log, k, CastField(cfg_value, FieldType(T, k)))

\* FieldsFrom that refuses a configuration key that is no external key of T
FieldsFrom_strict(T, config, i, args, log) ==
    IF i > Len(attribute_map(T)) THEN [err |-> "", args |-> args, log |-> log]
    ELSE IF config.tag # "map"
    THEN [err |-> "AttributeError", args |-> args,
          log |-> Append(log, Raised("AttributeError"))]
    ELSE IF \E n \in 1..Len(config.items) :
                \A j \in 1..Len(attribute_map(T)) :
                    S(attribute_map(T)[j][2]) # config.items[n][1]
    THEN [err |-> "ValueError", args |-> args,
          log |-> Append(log, Raised("ValueError"))]
    ELSE Field(T, config, i, args, log, attribute_map(T)[i][1],
               Get(config, S(attribute_map(T)[i][2])))

\* the loop over attribute_map.items(), from entry i on, with the
\* constructor_args gathered so far
FieldsFrom(T, config, i, args, log) ==
    IF i > Len(attribute_map(T)) THEN [err |-> "", args |-> args, log |-> log]
    ELSE IF config.tag # "map"
    THEN [err |-> "AttributeError", args |-> args,
          log |-> Append(log, Raised("AttributeError"))]
    ELSE Field(T, config, i, args, log, attribute_map(T)[i][1],
               Get(config, S(attribute_map(T)[i][2])))

\* return root_type(**constructor_args), after a loop that ended as r
Construct(T, r) ==
    IF r.err # "" THEN [err |-> r.err, val |-> NoneV, log |-> r.log]
    ELSE Return(Obj(T, r.args), Append(r.log, Ctor(T)))

new_object(root_type, config) ==
    IF root_type.tag # "class" THEN Raise("AttributeError", <<>>)
    ELSE Construct(root_type.name, FieldsFrom(root_type.name, config, 1, <<>>, <<>>))

\* cast_value that returns the value uncast when the type is not recognized
cast_value_passthrough(value, t) ==
    IF BuiltinGet(t) = "object" THEN Return(value, <<>>)
    ELSE IF BuiltinGet(t) = "type" THEN CallBuiltin(t, value)
    ELSE IF BuiltinGet(t) = "other" THEN Raise("TypeError", <<>>)
    ELSE IF ClientGet(t) # NoneV THEN new_object(ClientGet(t), value)
    ELSE Return(value, <<>>)

\* cast_value that leaves the dict of a Kubernetes type as it is
cast_value_raw(value, t) ==
    IF BuiltinGet(t) = "object" THEN Return(value, <<>>)
    ELSE IF BuiltinGet(t) = "type" THEN CallBuiltin(t, value)
    ELSE IF BuiltinGet(t) = "other" THEN Raise("TypeError", <<>>)
    ELSE IF ClientGet(t) # NoneV THEN Return(value, <<>>)
    ELSE Raise("ValueError", <<>>)

cast_value(value, t) ==
    IF BuiltinGet(t) = "object" THEN Return(value, <<>>)
    ELSE IF BuiltinGet(t) = "type" THEN CallBuiltin(t, value)
    ELSE IF BuiltinGet(t) = "other" THEN Raise("TypeError", <<>>)
    ELSE IF ClientGet(t) # NoneV THEN new_object(ClientGet(t), value)
    ELSE Raise("ValueError", <<>>)

(***************************************************************************)
(* The inputs: the parsed YAML documents and the directory entries.        *)
(***************************************************************************)
\* a key the document does not hold
Absent == [tag |-> "absent"]

RECURSIVE Combos(_)
\* the dicts that give each key of fields, in order, one of its values or leave it out
Combos(fields) ==
    IF Len(fields) = 0 THEN {<<>>}
    ELSE {(IF o = Absent THEN <<>> ELSE <<<<S(fields[1][1]), o>>>>) \o rest :
              o \in fields[1][2], rest \in Combos(Tail(fields))}

Dicts(fields) == {M(c) : c \in Combos(fields)}

Labels == M(<< <<S("app"), S("web")>>, <<S("tier"), I(1)>>, <<I(1), B(TRUE)>> >>)

MetaConfigs ==
    Dicts(<< <<"name", {Absent, NoneV, S(""), S("x"), I(0)}>>,
             <<"labels", {Absent, M(<<>>), Labels, S("oops")}>>,
             <<"finalizers", {Absent, L(<<>>), L(<<S("b"), S("a"), S("b")>>),
                              L(<<I(2), NoneV, S("c")>>), S("ab"), I(5)}>>,
             <<"generation", {Absent, I(0), S("7"), S("x"), B(FALSE)}>>,
             <<"creationTimestamp", {Absent, S("2020-01-01")}>>,
             <<"bogus", {Absent, S("zzz")}>> >>)

SmallMetas ==
    { M(<< <<S("name"), S("x")>> >>),
      M(<< <<S("name"), S("x")>>, <<S("bogus"), S("zzz")>> >>),
      M(<< <<S("finalizers"), L(<<S("b"), S("a")>>)>>, <<S("generation"), S("x")>> >>),
      M(<< <<S("labels"), Labels>>, <<S("generation"), I(0)>> >>) }

Containers ==
    { L(<<>>),
      L(<< M(<< <<S("name"), S("web")>>, <<S("args"), L(<<S("-v"), S("-q")>>)>> >>),
           M(<< <<S("name"), S("db")>>, <<S("image"), S("pg")>> >>) >>),
      L(<< M(<< <<S("name"), S("web")>> >>), S("oops"),
           M(<< <<S("name"), S("db")>> >>) >>),
      L(<< M(<< <<S("args"), I(3)>> >>) >>) }

SpecConfigs ==
    Dicts(<< <<"containers", {Absent} \cup Containers>>,
             <<"hostNetwork", {Absent, B(FALSE), S("yes")}>>,
             <<"dnsPolicy", {Absent, S("Default")}>> >>)

PodConfigs ==
    Dicts(<< <<"apiVersion", {Absent, S("v1")}>>,
             <<"kind", {Absent, S("Pod")}>>,
             <<"metadata", {Absent, NoneV, S("oops")} \cup SmallMetas>>,
             <<"spec", {Absent} \cup SpecConfigs>>,
             <<"status", {Absent, M(<<>>)}>> >>)

UserInfoConfigs ==
    Dicts(<< <<"extra", {Absent, M(<<>>),
                         M(<< <<S("scopes"), L(<<S("read"), S("write")>>)>> >>)}>>,
             <<"groups", {Absent, L(<<>>), L(<<S("ops"), S("dev")>>)}>>,
             <<"username", {Absent, S("kim"), I(0), B(FALSE)}>> >>)

RevisionConfigs ==
    Dicts(<< <<"data", {Absent, NoneV, S(""), I(0), B(FALSE), L(<<>>), M(<<>>),
                        M(<< <<S("spec"), L(<<I(1), S("a")>>)>> >>)}>>,
             <<"revision", {Absent, I(0), I(12), S("-3"), S(""), L(<<>>)}>> >>)

CustomConfigs ==
    Dicts(<< <<"matrix", {Absent, L(<<>>), L(<<L(<<S("x"), S("y")>>)>>)}>>,
             <<"tags", {Absent, L(<<S("a")>>)}>>,
             <<"pairs", {Absent, M(<< <<S("a"), S("b")>> >>)}>>,
             <<"ref", {Absent, M(<<>>)}>>,
             <<"apiClient", {Absent, M(<<>>)}>>,
             <<"moduleName", {Absent, S("x")}>>,
             <<"counts", {Absent, M(<<>>), I(4),
                          M(<< <<S("a"), S("1")>>, <<S("b"), I(2)>> >>),
                          M(<< <<S("a"), S("1")>>, <<S("b"), S("x")>> >>)}>> >>)

KindConfigs ==
    Dicts(<< <<"apiVersion", {Absent, S("apps/v1")}>>,
             <<"kind", {Absent, S("Deployment"), I(0)}>>,
             <<"metadata", {Absent} \cup SmallMetas>> >>)

\* the classes load_type is called with
LoadTypes ==
    {"V1ObjectMeta", "V1Pod", "V1PodSpec", "V1UserInfo", "V1ControllerRevision",
     "CustomResource", "V1Deployment", "AppsV1Deployment"}

\* the documents load_type reads for class T: dicts, and documents that are no dict
ConfigsOf(T) ==
    {NoneV, S("oops"), L(<<>>)} \cup
    CASE T = "V1ObjectMeta" -> MetaConfigs
      [] T = "V1Pod" -> PodConfigs
      [] T = "V1PodSpec" -> SpecConfigs
      [] T = "V1UserInfo" -> UserInfoConfigs
      [] T = "V1ControllerRevision" -> RevisionConfigs
      [] T = "CustomResource" -> CustomConfigs
      [] OTHER -> KindConfigs

Versions ==
    {Absent, NoneV, I(1), S("v1"), S("V1"), S("apps/v1"), S("apps/v1/x"),
     S("rbac.authorization.k8s.io/v1"), S("rbac.authorization.k8s.io/v1beta1"),
     S("__")}

Kinds ==
    {Absent, NoneV, I(1), S("Pod"), S("POD"), S("Deployment"), S("Role"),
     S("Widget"), S("name__")}

\* the documents get_type is called with
Manifests ==
    {NoneV} \cup
    Dicts(<< <<"apiVersion", Versions>>, <<"kind", Kinds>>,
             <<"metadata", {Absent, M(<< <<S("name"), S("x")>> >>),
                            M(<< <<S("creationTimestamp"), S("2020-01-01")>> >>)}>> >>)

\* the documents of the files load_file and load_path read
Documents ==
    { M(<< <<S("apiVersion"), S("v1")>>, <<S("kind"), S("Pod")>>,
           <<S("metadata"), M(<< <<S("name"), S("x")>> >>)>> >>),
      M(<< <<S("apiVersion"), S("apps/v1")>>, <<S("kind"), S("Deployment")>> >>),
      M(<< <<S("apiVersion"), S("v1")>>, <<S("kind"), S("Widget")>> >>),
      M(<< <<S("kind"), S("Pod")>> >>),
      M(<< <<S("apiVersion"), S("v1")>> >>),
      M(<< <<S("apiVersion"), NoneV>>, <<S("kind"), S("Pod")>> >>),
      M(<< <<S("apiVersion"), S("v1")>>, <<S("kind"), NoneV>> >>),
      M(<< <<S("apiVersion"), S("v1")>>, <<S("kind"), S("Pod")>>,
           <<S("metadata"), M(<< <<S("creationTimestamp"), S("2020-01-01")>> >>)>> >>) }

\* the names os.listdir yields
FileNames == {"pod.yaml", "deploy.YML", "notes.txt", "README"}

\* os.path.splitext(f)[1]: from the last dot on, "" for a name with no dot
\* (a name's leading dots do not count; no name here has one)
splitext(f) ==
    LET dots == {i \in 2..Len(f) : Char(f, i) = "."}
    IN  IF dots = {} THEN ""
        ELSE SubSeq(f, CHOOSE i \in dots : \A j \in dots : j <= i, Len(f))

(***************************************************************************)
(* The state of one call of load_path, load_file or load_type.             *)
(*                                                                         *)
(* Python lists are objects: heap[a] is the content of the list at address *)
(* a, and a variable or a dict entry that holds a list holds its address,  *)
(* so that two names of one list are told from two equal lists.            *)
(***************************************************************************)
VARIABLES
    pc,         \* "idle", "listdir" (load_path's loop), "documents" (load_file's loop), "done"
    call,       \* the function called: "load_path", "load_file", "load_type", "get_type"
    renderer,   \* whether a Renderer was passed
    heap,       \* the lists load_path made
    context,    \* renderer._context: whether it holds "objs", and the address it holds
    objs,       \* load_path's objs: an address
    nfiles,     \* the directory entries load_path has taken
    file_objs,  \* load_file's objs
    ndocs,      \* the documents load_file has taken
    rendered,   \* the merged context of the last call of the render callable
    manifest,   \* the last document
    resolved,   \* what get_type did for it
    built,      \* what new_object did for it
    result      \* how the call ended

vars == <<pc, call, renderer, heap, context, objs, nfiles, file_objs, ndocs,
          rendered, manifest, resolved, built, result>>

NotRendered == [called |-> FALSE, path |-> "", has_objs |-> FALSE, objs |-> <<>>]
NotResolved == [called |-> FALSE, raised |-> "", type |-> NoneV,
                lookupBuilt |-> FALSE, probes |-> <<>>]
NotBuilt == [called |-> FALSE, root_type |-> NoneV, err |-> "", val |-> NoneV, log |-> <<>>]
Running == [status |-> "running", err |-> "", value |-> <<>>]

Resolved(r) == [called |-> TRUE, raised |-> r.raised, type |-> r.type,
                lookupBuilt |-> r.lookupBuilt, probes |-> r.probes]
Built(root_type, r) == [called |-> TRUE, root_type |-> root_type, err |-> r.err,
                        val |-> r.val, log |-> r.log]
Returned(v) == [status |-> "returned", err |-> "", value |-> v]
Failed(e) == [status |-> "raised", err |-> e, value |-> <<>>]

Init ==
    /\ pc = "idle"
    /\ call = "none"
    /\ renderer = FALSE
    /\ heap = <<>>
    /\ context = [has_objs |-> FALSE, objs |-> 0]
    /\ objs = 0
    /\ nfiles = 0
    /\ file_objs = <<>>
    /\ ndocs = 0
    /\ rendered = NotRendered
    /\ manifest = NoneV
    /\ resolved = NotResolved
    /\ built = NotBuilt
    /\ result = Running

\* Renderer.__call__: merged_context = {**self.context, **context}, handed to the
\* render callable; the keyword arguments (path, obj_type) never name "objs"
Render(ctx, hp, path) ==
    [called |-> TRUE, path |-> path, has_objs |-> ctx.has_objs,
     objs |-> IF ctx.has_objs THEN hp[ctx.objs] ELSE <<>>]

\* load_file up to its loop: the file is opened and, with a renderer, rendered
OpenFile(r, ctx, hp, path) ==
    /\ rendered' = (IF r THEN Render(ctx, hp, path) ELSE rendered)
    /\ file_objs' = <<>>
    /\ ndocs' = 0
    /\ pc' = "documents"

\* load_path(path, renderer=r) on a path that is or is not a directory
LoadPath(isdir, r) ==
    /\ pc = "idle"
    /\ call' = "load_path"
    /\ renderer' = r
    /\ IF ~isdir
       THEN /\ result' = Failed("ValueError")
            /\ pc' = "done"
            /\ UNCHANGED <<heap, context, objs>>
       ELSE /\ heap' = Append(heap, <<>>)
            /\ objs' = Len(heap) + 1
            /\ context' = (IF r THEN [has_objs |-> TRUE, objs |-> Len(heap) + 1]
                           ELSE context)
            /\ pc' = "listdir"
            /\ UNCHANGED result
    /\ UNCHANGED <<nfiles, file_objs, ndocs, rendered, manifest, resolved, built>>

\* one turn of load_path's loop: the entry f, loaded when its extension is a manifest's
NextEntry(f) ==
    /\ pc = "listdir"
    /\ nfiles < MaxFiles
    /\ nfiles' = nfiles + 1
    /\ IF Lower(splitext(f)) \in {".yaml", ".yml"}
       THEN OpenFile(renderer, context, heap, f)
       ELSE UNCHANGED <<pc, file_objs, ndocs, rendered>>
    /\ UNCHANGED <<call, renderer, heap, context, objs, manifest, resolved, built, result>>

\* load_path's loop is over: return objs
LoadPathReturn ==
    /\ pc = "listdir"
    /\ result' = Returned(heap[objs])
    /\ pc' = "done"
    /\ UNCHANGED <<call, renderer, heap, context, objs, nfiles, file_objs, ndocs,
                   rendered, manifest, resolved, built>>

\* load_file(path, renderer=r), called directly
LoadFile(f, r) ==
    /\ pc = "idle"
    /\ call' = "load_file"
    /\ renderer' = r
    /\ OpenFile(r, context, heap, f)
    /\ UNCHANGED <<heap, context, objs, nfiles, manifest, resolved, built, result>>

\* objs.append(new_object(obj_type, manifest)), for a build that ended as b
AppendObject(b) ==
    IF b.err # ""
    THEN /\ result' = Failed(b.err)
         /\ pc' = "done"
         /\ UNCHANGED file_objs
    ELSE /\ file_objs' = Append(file_objs, b.val)
         /\ UNCHANGED <<result, pc>>

\* one turn of load_file's loop, for the document m that get_type resolved as t
LoadDocument(m, t) ==
    /\ manifest' = m
    /\ resolved' = Resolved(t)
    /\ ndocs' = ndocs + 1
    /\ IF t.raised # ""
       THEN /\ built' = NotBuilt
            /\ result' = Failed(t.raised)
            /\ pc' = "done"
            /\ UNCHANGED file_objs
       ELSE IF t.type = NoneV
       THEN /\ built' = NotBuilt
            /\ result' = Failed("ValueError")
            /\ pc' = "done"
            /\ UNCHANGED file_objs
       ELSE /\ built' = Built(t.type, new_object(t.type, m))
            /\ AppendObject(built')

NextDocument ==
    /\ pc = "documents"
    /\ ndocs < MaxDocs
    /\ \E m \in Documents : LoadDocument(m, get_type(m))
    /\ UNCHANGED <<call, renderer, heap, context, objs, nfiles, rendered>>

\* load_file returns its objs; load_path binds objs to a new list, objs + the returned list
LoadFileReturn ==
    /\ pc = "documents"
    /\ IF call = "load_path"
       THEN /\ heap' = Append(heap, heap[objs] \o file_objs)
            /\ objs' = Len(heap) + 1
            /\ pc' = "listdir"
            /\ UNCHANGED result
       ELSE /\ result' = Returned(file_objs)
            /\ pc' = "done"
            /\ UNCHANGED <<heap, objs>>
    /\ UNCHANGED <<call, renderer, context, nfiles, file_objs, ndocs, rendered,
                   manifest, resolved, built>>

\* load_type(obj_type, path, renderer=r) on a file holding the document m
LoadType(T, m, f, r) ==
    /\ call' = "load_type"
    /\ renderer' = r
    /\ rendered' = (IF r THEN Render(context, heap, f) ELSE rendered)
    /\ manifest' = m
    /\ built' = Built(Class(T), new_object(Class(T), m))
    /\ result' = (IF built'.err # "" THEN Failed(built'.err) ELSE Returned(built'.val))
    /\ pc' = "done"
    /\ UNCHANGED <<heap, context, objs, nfiles, file_objs, ndocs, resolved>>

\* get_type(m), called directly
GetType(m) ==
    /\ call' = "get_type"
    /\ manifest' = m
    /\ resolved' = Resolved(get_type(m))
    /\ result' = (IF resolved'.raised # "" THEN Failed(resolved'.raised)
                  ELSE Returned(resolved'.type))
    /\ pc' = "done"
    /\ UNCHANGED <<renderer, heap, context, objs, nfiles, file_objs, ndocs,
                   rendered, built>>

GetTypeCall ==
    /\ pc = "idle"
    /\ \E m \in Manifests : GetType(m)

LoadTypeCall ==
    /\ pc = "idle"
    /\ \E T \in LoadTypes, r \in BOOLEAN :
           \E m \in ConfigsOf(T) : LoadType(T, m, "pod.yaml", r)

Next ==
    \/ \E isdir \in BOOLEAN, r \in BOOLEAN : LoadPath(isdir, r)
    \/ \E f \in FileNames : NextEntry(f)
    \/ LoadPathReturn
    \/ \E f \in FileNames, r \in BOOLEAN : LoadFile(f, r)
    \/ NextDocument
    \/ LoadFileReturn
    \/ GetTypeCall
    \/ LoadTypeCall

Spec == Init /\ [][Next]_vars

(***************************************************************************)
(* What the claims speak of.                                               *)
(***************************************************************************)
Fields(T) == 1..Len(attribute_map(T))
Internal(T, i) == attribute_map(T)[i][1]
External(T, i) == S(attribute_map(T)[i][2])

\* the value the configuration gives field i of T: None for none
Given(T, cfg, i) == Get(cfg, External(T, i))

\* field i is the first field of T the configuration gives a value
FirstGiven(T, cfg, i) ==
    /\ Given(T, cfg, i) # NoneV
    /\ \A j \in 1..(i - 1) : Given(T, cfg, j) = NoneV

\* new_object was called with a model class and a dict
BuiltFromDict ==
    built.called /\ built.root_type.tag = "class" /\ manifest.tag = "map"

BuiltType == built.root_type.name

\* a signature new_object takes for a base type
IsBare(t) == ~list_match(t) /\ ~dict_match(t)

\* a base type name that is no builtin name and no name of kubernetes.client
Unrecognized(t) == BuiltinGet(t) = "absent" /\ ClientGet(t) = NoneV

\* a base type name that names a model class and no builtin
NamesClass(t) == BuiltinGet(t) = "absent" /\ ClientGet(t).tag = "class"

\* the registry names with their lower-cased forms
LowerNames == {<<Lower(ModelsKeys[i]), ModelsKeys[i]>> : i \in 1..Len(ModelsKeys)}

Registered(c) == \E e \in LowerNames : e[1] = Lower(c)

\* the registry entries a candidate name matches without regard to case
EntriesOf(c) == {ModelsGet(e[2]) : e \in {x \in LowerNames : x[1] = Lower(c)}}

\* the text after the "/" of a version that holds one
Suffix(version) ==
    SubSeq(version, (CHOOSE i \in 1..Len(version) : Char(version, i) = "/") + 1,
           Len(version))

\* get_type was called on a dict whose apiVersion and kind are strings
ResolvedStrings ==
    /\ resolved.called
    /\ manifest.tag = "map"
    /\ Get(manifest, S("apiVersion")).tag = "str"
    /\ Get(manifest, S("kind")).tag = "str"

\* C1: for a manifest with apiVersion and kind, get_type tries the
\* version-prefixed name (apiVersion without "/" and "." followed by kind) and
\* then, only when apiVersion holds exactly one "/", the part after the "/"
\* followed by kind; it returns the registry entry of the first candidate that
\* matches a registry name without regard to case, so the version-prefixed one
\* when both are registered, and None exactly when no candidate matches.
C1_ResolutionPriority ==
    ResolvedStrings =>
        LET version == Get(manifest, S("apiVersion")).s
            kind == Get(manifest, S("kind")).s
            first == Remove(Remove(version, "/"), ".") \o kind
            hasSecond == Count(version, "/") = 1
            second == Suffix(version) \o kind
        IN  /\ resolved.raised = ""
            /\ Registered(first) =>
                   /\ resolved.type \in EntriesOf(first)
                   /\ resolved.probes = <<first>>
            /\ (~Registered(first) /\ hasSecond /\ Registered(second)) =>
                   resolved.type \in EntriesOf(second)
            /\ (resolved.type = NoneV) <=>
                   (~Registered(first) /\ ~(hasSecond /\ Registered(second)))
            /\ (~Registered(first) /\ hasSecond) => resolved.probes = <<first, second>>
            /\ (~Registered(first) /\ ~hasSecond) => resolved.probes = <<first>>

\* both candidates of "apps/v1" + "Deployment" are registered, and the
\* version-prefixed class was returned
C1_Witness ==
    /\ ResolvedStrings
    /\ Registered("appsv1Deployment")
    /\ Registered("v1Deployment")
    /\ Get(manifest, S("apiVersion")) = S("apps/v1")
    /\ Get(manifest, S("kind")) = S("Deployment")
    /\ resolved.type = Class("AppsV1Deployment")

\* the manifest lacks apiVersion or kind: the key is absent or its value is None
LacksField ==
    /\ resolved.called
    /\ manifest.tag = "map"
    /\ \/ Get(manifest, S("apiVersion")) = NoneV
       \/ Get(manifest, S("kind")) = NoneV

\* C2: when the manifest lacks apiVersion or kind, get_type raises ValueError
\* before it builds the lookup or probes a candidate, returns neither None nor a
\* type, and load_file builds no object for the document.
C2_MissingFieldRaises ==
    LacksField =>
        /\ resolved.raised = "ValueError"
        /\ ~resolved.lookupBuilt
        /\ resolved.probes = <<>>
        /\ result.status = "raised"
        /\ result.err = "ValueError"
        /\ ~built.called
        /\ pc = "done"

\* load_file met a document with no apiVersion after it had built an object
C2_Witness ==
    /\ LacksField
    /\ call = "load_file"
    /\ ~HasKey(manifest, S("apiVersion"))
    /\ Len(file_objs) = 1
    /\ result.status = "raised"

\* C3: in a load_path with a renderer, the context the render callable gets for
\* a file holds under "objs" the objects built from the files before it.
C3_LaterTemplatesSeeEarlierObjects ==
    (call = "load_path" /\ renderer /\ rendered.called /\ pc = "documents") =>
        /\ rendered.has_objs
        /\ rendered.objs = heap[objs]

\* a value a signature list[list[str]] or dict(str, list[str]) is written for
NestedRaw(v) ==
    /\ v.tag \in {"list", "map"}
    /\ Len(v.items) > 0
    /\ \A i \in 1..Len(v.items) :
           LET e == IF v.tag = "list" THEN v.items[i] ELSE v.items[i][2]
           IN  /\ e.tag = "list"
               /\ \A j \in 1..Len(e.items) : e.items[j].tag = "str"
               /\ v.tag = "map" => v.items[i][1].tag = "str"

\* a list or dict signature whose element or value type is a list signature
NestedSignature(t) ==
    \/ list_match(t) /\ list_match(element_type(t))
    \/ dict_match(t) /\ list_match(val_type(t))

\* field i is the only field of T the configuration gives a value
OnlyGiven(T, cfg, i) ==
    /\ Given(T, cfg, i) # NoneV
    /\ \A j \in Fields(T) \ {i} : Given(T, cfg, j) = NoneV

\* C4: the dispatch on the signature's shape is applied at every level, so a
\* field whose element or value type is itself a list signature (list[list[str]],
\* dict(str, list[str])) is cast into the nested collection and does not fail.
C4_NestedSignaturesCast ==
    BuiltFromDict =>
        \A i \in Fields(BuiltType) :
            (/\ OnlyGiven(BuiltType, manifest, i)
             /\ NestedSignature(FieldType(BuiltType, Internal(BuiltType, i)))
             /\ NestedRaw(Given(BuiltType, manifest, i)))
            => /\ built.err = ""
               /\ built.val.args[Internal(BuiltType, i)] = Given(BuiltType, manifest, i)

RECURSIVE ArgsExact(_, _)
\* the object's arguments are those of the fields the configuration gives a
\* value other than None, each the cast of that value, at every level
ArgsExact(obj, cfg) ==
    /\ DOMAIN obj.args =
           {Internal(obj.type, i) :
                i \in {j \in Fields(obj.type) : Given(obj.type, cfg, j) # NoneV}}
    /\ \A i \in Fields(obj.type) :
           Given(obj.type, cfg, i) # NoneV =>
               /\ obj.args[Internal(obj.type, i)] =
                      CastField(Given(obj.type, cfg, i),
                                FieldType(obj.type, Internal(obj.type, i))).val
               /\ obj.args[Internal(obj.type, i)].tag = "obj" =>
                      ArgsExact(obj.args[Internal(obj.type, i)], Given(obj.type, cfg, i))
               /\ obj.args[Internal(obj.type, i)].tag = "list" =>
                      \A j \in 1..Len(obj.args[Internal(obj.type, i)].items) :
                          obj.args[Internal(obj.type, i)].items[j].tag = "obj" =>
                              ArgsExact(obj.args[Internal(obj.type, i)].items[j],
                                        Elements(Given(obj.type, cfg, i))[j])

\* C5: new_object skips a field exactly when its external key is absent or maps
\* to None; a skipped field causes no failure, and every other field, a falsy
\* value included, is cast and passed under its internal identifier.
C5_SkipsExactlyAbsentAndNone ==
    BuiltFromDict =>
        /\ built.err = "" => ArgsExact(built.val, manifest)
        /\ (\A i \in Fields(BuiltType) : Given(BuiltType, manifest, i) = NoneV) =>
               /\ built.err = ""
               /\ built.val = Obj(BuiltType, <<>>)

\* name is given as None and skipped, generation is given as 0 and passed
C5_Witness ==
    /\ BuiltFromDict
    /\ BuiltType = "V1ObjectMeta"
    /\ HasKey(manifest, S("name"))
    /\ Get(manifest, S("name")) = NoneV
    /\ Get(manifest, S("generation")) = I(0)
    /\ built.err = ""
    /\ DOMAIN built.val.args = {"generation"}
    /\ built.val.args["generation"] = I(0)

\* the signatures a value of field i is cast against as base types: the field's
\* own, or those of the elements, keys and values of a collection that has some
BareSignatures(t, v) ==
    IF list_match(t)
    THEN (IF IsIterable(v) /\ Len(Elements(v)) > 0 THEN {element_type(t)} ELSE {})
    ELSE IF dict_match(t)
    THEN (IF v.tag = "map" /\ Len(v.items) > 0 THEN {key_type(t), val_type(t)} ELSE {})
    ELSE {t}

\* C6: a signature of no recognized shape, or a base type name that is neither
\* a builtin nor a registered class, makes the cast fail; the value is never
\* passed through uncast, except for "object", which returns it unchanged.
C6_UnrecognizedTypeFails ==
    BuiltFromDict =>
        \A i \in Fields(BuiltType) :
            LET t == FieldType(BuiltType, Internal(BuiltType, i))
                v == Given(BuiltType, manifest, i)
            IN  /\ (v # NoneV /\ \E b \in BareSignatures(t, v) : Unrecognized(b)) =>
                       /\ built.err # ""
                       /\ built.val = NoneV
                /\ (FirstGiven(BuiltType, manifest, i) /\ IsBare(t) /\ Unrecognized(t)) =>
                       built.err = "ValueError"
                /\ (v # NoneV /\ t = "object" /\ built.err = "") =>
                       built.val.args[Internal(BuiltType, i)] = v

\* a field of the unregistered type V1Missing was given and the build failed
C6_Witness ==
    /\ BuiltFromDict
    /\ BuiltType = "CustomResource"
    /\ FirstGiven("CustomResource", manifest, 4)
    /\ FieldType("CustomResource", Internal("CustomResource", 4)) = "V1Missing"
    /\ built.err = "ValueError"
    /\ built.val = NoneV

\* C7: a cast failure at any depth aborts the whole build: new_object raises
\* and returns no object, no constructor is invoked after the failure, and
\* load_file returns no list when a document fails to resolve or to build.
C7_FailureAbortsBuild ==
    /\ built.called =>
           /\ built.err # "" =>
                  /\ built.val = NoneV
                  /\ Len(built.log) > 0
                  /\ \A i \in 1..Len(built.log) :
                         built.log[i].ev = "raise" <=> i = Len(built.log)
                  /\ result.status = "raised"
                  /\ result.err = built.err
                  /\ result.value = <<>>
                  /\ pc = "done"
           /\ built.err = "" =>
                  /\ built.val.tag = "obj"
                  /\ \A i \in 1..Len(built.log) : built.log[i].ev = "ctor"
                  /\ built.log[Len(built.log)] = Ctor(BuiltType)
    /\ (call \in {"load_file", "load_path"} /\ resolved.called
            /\ (resolved.raised # "" \/ resolved.type = NoneV)) =>
           /\ result.status = "raised"
           /\ result.value = <<>>
           /\ pc = "done"

\* the build of a pod failed in a container three levels down, after the
\* constructors of the objects before it had run
C7_Witness ==
    /\ call = "load_type"
    /\ built.called
    /\ BuiltType = "V1Pod"
    /\ built.err = "AttributeError"
    /\ Len(built.log) >= 3
    /\ built.log[1] = Ctor("V1ObjectMeta")
    /\ built.log[2] = Ctor("V1Container")
    /\ result.status = "raised"

RECURSIVE NestedBuilt(_, _)
\* every field of a registered class type holds the instance new_object builds
\* from the field's dict, at every level
NestedBuilt(obj, cfg) ==
    \A i \in Fields(obj.type) :
        (/\ Given(obj.type, cfg, i) # NoneV
         /\ IsBare(FieldType(obj.type, Internal(obj.type, i)))
         /\ NamesClass(FieldType(obj.type, Internal(obj.type, i))))
        => /\ obj.args[Internal(obj.type, i)].tag = "obj"
           /\ obj.args[Internal(obj.type, i)].type =
                  FieldType(obj.type, Internal(obj.type, i))
           /\ Given(obj.type, cfg, i).tag = "map"
           /\ obj.args[Internal(obj.type, i)] =
                  new_object(Class(FieldType(obj.type, Internal(obj.type, i))),
                             Given(obj.type, cfg, i)).val
           /\ NestedBuilt(obj.args[Internal(obj.type, i)], Given(obj.type, cfg, i))

\* C8: a field whose signature is a registered class and whose value is a dict
\* is built by new_object with that class, at every depth, and never left as
\* the raw dict; builtin names are tried before the names of kubernetes.client.
C8_NestedObjectsBuilt ==
    BuiltFromDict =>
        /\ built.err = "" => NestedBuilt(built.val, manifest)
        /\ \A i \in Fields(BuiltType) :
               (/\ FirstGiven(BuiltType, manifest, i)
                /\ FieldType(BuiltType, Internal(BuiltType, i)) = "__name__")
               => built.err = "TypeError"

\* a pod whose metadata and whose spec's containers were built as instances
C8_Witness ==
    /\ BuiltFromDict
    /\ BuiltType = "V1Pod"
    /\ built.err = ""
    /\ Get(manifest, S("metadata")).tag = "map"
    /\ built.val.args["metadata"].tag = "obj"
    /\ Get(manifest, S("spec")).tag = "map"
    /\ built.val.args["spec"].tag = "obj"
    /\ built.val.args["spec"].type = "V1PodSpec"

\* C9: a list[T] field holds a sequence as long as the raw one whose i-th
\* element is the cast of the i-th raw element against T.
C9_ListOrderPreserved ==
    (BuiltFromDict /\ built.err = "") =>
        \A i \in Fields(BuiltType) :
            LET t == FieldType(BuiltType, Internal(BuiltType, i))
                v == Given(BuiltType, manifest, i)
            IN  (v # NoneV /\ list_match(t)) =>
                    LET cast == built.val.args[Internal(BuiltType, i)]
                    IN  /\ cast.tag = "list"
                        /\ Len(cast.items) = Len(Elements(v))
                        /\ \A j \in 1..Len(cast.items) :
                               cast.items[j] =
                                   cast_value(Elements(v)[j], element_type(t)).val

\* finalizers [2, None, c] came out as ['2', 'None', 'c']
C9_Witness ==
    /\ BuiltFromDict
    /\ BuiltType = "V1ObjectMeta"
    /\ built.err = ""
    /\ Get(manifest, S("finalizers")) = L(<<I(2), NoneV, S("c")>>)
    /\ built.val.args["finalizers"] = L(<<S("2"), S("None"), S("c")>>)

\* key is the external key of a field of T
IsExternal(T, key) == \E i \in Fields(T) : External(T, i) = key

\* the signature of the field of T whose external key is key
SignatureOf(T, key) ==
    FieldType(T, Internal(T, CHOOSE i \in Fields(T) : External(T, i) = key))

RECURSIVE Strip(_, _)
\* cfg without the keys that are no external key of T, at every level: in the
\* dicts of its fields of a class type and of its lists of a class type too
Strip(T, cfg) ==
    IF cfg.tag # "map" THEN cfg
    ELSE LET kept == SelectSeq(cfg.items, LAMBDA e : IsExternal(T, e[1]))
         IN  M([n \in 1..Len(kept) |->
                   LET t == SignatureOf(T, kept[n][1])
                       v == kept[n][2]
                   IN  <<kept[n][1],
                         IF IsBare(t) /\ NamesClass(t) THEN Strip(t, v)
                         ELSE IF list_match(t) /\ NamesClass(element_type(t))
                                  /\ v.tag = "list"
                         THEN L([j \in 1..Len(v.items) |->
                                    Strip(element_type(t), v.items[j])])
                         ELSE v>>])

\* the configuration holds a key, at some level, that is no external key
HasUnmappedKey == BuiltFromDict /\ Strip(BuiltType, manifest) # manifest

\* C10: the keys of the raw dict that are no external key of the class are
\* ignored at every level: the build of a dict and the build of the dict
\* without them end alike, in the same object or the same failure.
C10_UnmappedKeysIgnored ==
    BuiltFromDict =>
        Built(built.root_type, new_object(built.root_type, Strip(BuiltType, manifest)))
            = built

\* a pod with an unmapped key in its metadata and one in a container was built
C10_Witness ==
    /\ HasUnmappedKey
    /\ BuiltType = "V1Pod"
    /\ built.err = ""
    /\ HasKey(manifest, S("status"))
    /\ HasKey(manifest, S("metadata"))
    /\ Get(manifest, S("metadata")).tag = "map"
    /\ HasKey(Get(manifest, S("metadata")), S("bogus"))
    /\ "spec" \in DOMAIN built.val.args
    /\ "containers" \in DOMAIN built.val.args["spec"].args

====
